---- MODULE Spec2Model ----
(***************************************************************************)
(* Storage registry and virtual-path routing of alist                      *)
(* (package operations: storagesMap, balanceMap and the lifecycle          *)
(* functions; package db: the storage table).                              *)
(*                                                                         *)
(* A path is a sequence of one-character strings, so that the prefix,      *)
(* length and slash-count tests of the Go code are computed character by   *)
(* character as the code computes them.                                    *)
(***************************************************************************)
EXTENDS Integers, Sequences, FiniteSets, TLC

\* ------------------------------------------------------------------ bounds

\* rows the storage table may ever be given in the lifecycle specification
MaxStorages == 2
\* rows the storage table may ever be given in the overlap specification
MaxOverlap == 3
\* rows the storage table may ever be given in the routing specification
MaxMounts == 3
\* rows the storage table may ever be given in the balancing specification
MaxGroup == 3
\* consecutive GetBalancedStorage results the caller keeps
MaxCalls == 5
\* rows the storage table may ever be given in the listing specification
MaxListed == 3
\* GetBalancedStorage calls made before the concurrent callers start
MaxSeeded == 3
\* rows the storage table may ever be given in the race specification
MaxRaced == 2

\* ------------------------------------------------------------------ strings

\* byte values of the characters used, for Go's string comparison
Code(c) ==
    CASE c = "." -> 46
      [] c = "/" -> 47
      [] c = "1" -> 49
      [] c = "2" -> 50
      [] c = "a" -> 97
      [] c = "b" -> 98
      [] c = "c" -> 99
      [] c = "d" -> 100
      [] c = "e" -> 101
      [] c = "l" -> 108
      [] c = "n" -> 110
      [] c = "v" -> 118

\* strings.HasPrefix(s, prefix)
HasPrefix(s, prefix) ==
    /\ Len(prefix) <= Len(s)
    /\ SubSeq(s, 1, Len(prefix)) = prefix

\* strings.HasSuffix(s, suffix)
HasSuffix(s, suffix) ==
    /\ Len(suffix) <= Len(s)
    /\ SubSeq(s, Len(s) - Len(suffix) + 1, Len(s)) = suffix

\* strings.TrimPrefix(s, prefix)
TrimPrefix(s, prefix) ==
    IF HasPrefix(s, prefix) THEN SubSeq(s, Len(prefix) + 1, Len(s)) ELSE s

\* strings.TrimSuffix(s, suffix)
TrimSuffix(s, suffix) ==
    IF HasSuffix(s, suffix) THEN SubSeq(s, 1, Len(s) - Len(suffix)) ELSE s

\* strings.Count(s, "/")
SlashCount(s) == Cardinality({i \in 1..Len(s) : s[i] = "/"})

\* strings.Split(s, "/")[0]
FirstSegment(s) ==
    LET cut == {i \in 1..Len(s) : s[i] = "/"}
    IN  IF cut = {} THEN s
        ELSE SubSeq(s, 1, (CHOOSE i \in cut : \A j \in cut : i <= j) - 1)

\* Go's s < t on strings: bytewise lexicographic order
StrLess(s, t) ==
    \E k \in 1..(Len(t)) :
        /\ k <= Len(s) + 1
        /\ SubSeq(s, 1, k - 1) = SubSeq(t, 1, k - 1)
        /\ \/ k = Len(s) + 1
           \/ k <= Len(s) /\ Code(s[k]) < Code(t[k])

\* positions at which sub occurs in s
Occurrences(s, sub) ==
    {i \in 1..(Len(s) - Len(sub) + 1) : SubSeq(s, i, i + Len(sub) - 1) = sub}

\* the balance-group suffix marker
balance == <<".", "b", "a", "l", "a", "n", "c", "e">>

\* utils.StandardizePath: no trailing slash, a leading slash, root is "/"
StandardizePath(path) ==
    LET p == TrimSuffix(path, <<"/">>)
    IN  IF HasPrefix(p, <<"/">>) THEN p ELSE <<"/">> \o p

\* utils.IsBalance: the mount path carries the suffix marker
IsBalance(str) == Occurrences(str, balance) # {}

\* utils.GetActualVirtualPath: the mount path with the balance suffix stripped
GetActualVirtualPath(virtualPath) ==
    LET occ == Occurrences(virtualPath, balance)
    IN  IF occ = {} THEN virtualPath
        ELSE SubSeq(virtualPath, 1, (CHOOSE i \in occ : \A j \in occ : j <= i) - 1)

\* ------------------------------------------------------------------ maps

\* generic_sync.MapOf.Store / sync.Map.Store
MapStore(m, k, v) == (k :> v) @@ m

\* generic_sync.MapOf.Delete / sync.Map.Delete
MapDelete(m, k) == [x \in (DOMAIN m) \ {k} |-> m[x]]

\* ------------------------------------------------------------------ additions

\* the typed addition values a driver may hold (a token it refreshes)
Additions == {"t1", "t2"}

\* utils.Json.Marshal of a driver's addition
Marshal(addition) == <<"{", addition, "}">>

\* utils.Json.UnmarshalFromString into the driver's addition
Unmarshal(str) == str[2]

\* ------------------------------------------------------------------ state

VARIABLES
    db,           \* the storage table: id -> model.Storage
    nextId,       \* the table's auto-increment counter
    drivers,      \* the live driver instances: instance -> its Storage, Addition, status
    storagesMap,  \* operations.storagesMap: mount path -> driver instance
    balanceMap,   \* operations.balanceMap: actual virtual path -> cursor
    call,         \* the last call: its name, the storage id, the mount path and
                  \* the driver type it was about, the mount path it was asked
                  \* to move the storage to, and the error it returned
    calls,        \* the results of the GetBalancedStorage calls made in a row
    goroutines    \* the goroutines inside an operation: the statement each is
                  \* at and its local variables

vars == <<db, nextId, drivers, storagesMap, balanceMap, call, calls, goroutines>>

\* the empty map
Empty == <<>>

\* the goroutines that run an operation statement by statement: two callers
\* of GetBalancedStorage, one of UpdateStorage and one of DeleteStorageById
Goroutines == {"g1", "g2", "update", "delete"}

\* a goroutine that is not inside an operation
Idle == [pc |-> "idle", op |-> "none"]

\* driver names with a constructor registered through RegisterDriver
driverNewMap == {"Local", "S3"}

Init ==
    /\ db = Empty
    /\ nextId = 1
    /\ drivers = Empty
    /\ storagesMap = Empty
    /\ balanceMap = Empty
    /\ call = [op |-> "none", id |-> 0, path |-> <<>>, new |-> <<>>, driver |-> "",
               err |-> "nil"]
    /\ calls = <<>>
    /\ goroutines = [g \in Goroutines |-> Idle]

\* the call op about storage id at mount path, asked to move it to mount
\* path new and given driver type driver, returns err: the message the code
\* wraps the cause with, or nil
Moved(op, id, path, new, driver, err) ==
    call' = [op |-> op, id |-> id, path |-> path, new |-> new, driver |-> driver,
             err |-> err]

\* the same for a call that moves nothing
Return(op, id, path, driver, err) == Moved(op, id, path, path, driver, err)

\* driver.Driver.GetStorage of instance d
GetStorage(d) == drivers[d].Storage

\* driver.Driver.GetAddition of instance d
GetAddition(d) == drivers[d].Addition

\* the state of an instance after a successful Init(ctx, storage)
DriverInit(storage) ==
    [Storage |-> storage, Addition |-> Unmarshal(storage.Addition), status |-> "inited"]

\* the state of instance d after a failed Init(ctx, storage): the driver may
\* or may not have bound the storage before it failed
DriverInitFailed(d, storage, bind) ==
    [Storage |-> IF bind THEN storage ELSE drivers[d].Storage,
     Addition |-> drivers[d].Addition,
     status |-> "failed"]

\* the state of instance d after a successful Drop(ctx)
DriverDrop(d) == [drivers[d] EXCEPT !.status = "dropped"]

\* ------------------------------------------------------------------ lifecycle

\* CreateStorage initializing the driver with the storage as it was before
\* db.CreateStorage gave it an id
CreateStorageNoId(config, now, fault) ==
    LET storage == [config EXCEPT !.Modified = now,
                                  !.MountPath = StandardizePath(config.MountPath)]
        created == [storage EXCEPT !.ID = nextId]
    IN  /\ UNCHANGED <<balanceMap>>
        /\ calls' = <<>>
        /\ IF storage.Driver \notin driverNewMap
           THEN /\ Return("CreateStorage", 0, storage.MountPath, storage.Driver,
                          "failed get driver new")
                /\ UNCHANGED <<db, nextId, drivers, storagesMap>>
           ELSE IF fault = "db"
           THEN /\ Return("CreateStorage", 0, storage.MountPath, storage.Driver,
                       "failed create storage in database")
                /\ UNCHANGED <<db, nextId, drivers, storagesMap>>
           ELSE /\ db' = MapStore(db, nextId, created)
                /\ nextId' = nextId + 1
                /\ IF fault = "init"
                   THEN /\ Return("CreateStorage", nextId, storage.MountPath, storage.Driver,
                                  "failed init storage but storage is already created")
                        /\ UNCHANGED <<drivers, storagesMap>>
                   ELSE /\ drivers' = MapStore(drivers, nextId, DriverInit(storage))
                        /\ storagesMap' = MapStore(storagesMap, storage.MountPath, nextId)
                        /\ Return("CreateStorage", nextId, storage.MountPath, storage.Driver,
                                  "nil")

\* CreateStorage storing the registry entry before the driver's Init returns
CreateStorageEarlyStore(config, now, fault) ==
    LET storage == [config EXCEPT !.Modified = now,
                                  !.MountPath = StandardizePath(config.MountPath)]
        created == [storage EXCEPT !.ID = nextId]
    IN  /\ UNCHANGED <<balanceMap>>
        /\ calls' = <<>>
        /\ IF storage.Driver \notin driverNewMap
           THEN /\ Return("CreateStorage", 0, storage.MountPath, storage.Driver,
                          "failed get driver new")
                /\ UNCHANGED <<db, nextId, drivers, storagesMap>>
           ELSE IF fault = "db"
           THEN /\ Return("CreateStorage", 0, storage.MountPath, storage.Driver,
                       "failed create storage in database")
                /\ UNCHANGED <<db, nextId, drivers, storagesMap>>
           ELSE /\ db' = MapStore(db, nextId, created)
                /\ nextId' = nextId + 1
                /\ storagesMap' = MapStore(storagesMap, created.MountPath, nextId)
                /\ IF fault = "init"
                   THEN /\ Return("CreateStorage", nextId, storage.MountPath, storage.Driver,
                                  "failed init storage but storage is already created")
                        /\ drivers' = MapStore(drivers, nextId,
                                               [DriverInit(created) EXCEPT !.status = "failed"])
                   ELSE /\ drivers' = MapStore(drivers, nextId, DriverInit(created))
                        /\ Return("CreateStorage", nextId, storage.MountPath, storage.Driver,
                                  "nil")

\* operations.CreateStorage; fault names the external call that returns an
\* error: "db" (db.CreateStorage), "init" (the driver's Init) or "none"
CreateStorage(config, now, fault) ==
    LET dbErr == fault = "db"
        initErr == fault = "init"
        storage == [config EXCEPT !.Modified = now,
                                  !.MountPath = StandardizePath(config.MountPath)]
        created == [storage EXCEPT !.ID = nextId]
    IN  /\ UNCHANGED <<balanceMap>>
        /\ calls' = <<>>
        /\ IF storage.Driver \notin driverNewMap
           THEN /\ Return("CreateStorage", 0, storage.MountPath, storage.Driver,
                          "failed get driver new")
                /\ UNCHANGED <<db, nextId, drivers, storagesMap>>
           ELSE IF dbErr
           THEN /\ Return("CreateStorage", 0, storage.MountPath, storage.Driver,
                       "failed create storage in database")
                /\ UNCHANGED <<db, nextId, drivers, storagesMap>>
           ELSE /\ db' = MapStore(db, nextId, created)
                /\ nextId' = nextId + 1
                /\ IF initErr
                   THEN /\ Return("CreateStorage", nextId, storage.MountPath, storage.Driver,
                                  "failed init storage but storage is already created")
                        /\ UNCHANGED <<drivers, storagesMap>>
                   ELSE /\ drivers' = MapStore(drivers, nextId, DriverInit(created))
                        /\ storagesMap' = MapStore(storagesMap, created.MountPath, nextId)
                        /\ Return("CreateStorage", nextId, storage.MountPath, storage.Driver,
                                  "nil")

\* Reinitialize keeping the old registry key when the mount path changes
ReinitializeKeepKey(oldStorage, storage, fault) ==
    LET ok == oldStorage.MountPath \in DOMAIN storagesMap
        storageDriver == storagesMap[oldStorage.MountPath]
    IN  IF fault = "db"
        THEN /\ Moved("UpdateStorage", storage.ID, oldStorage.MountPath,
                       storage.MountPath, storage.Driver, "failed update storage in database")
             /\ UNCHANGED <<db, drivers, storagesMap>>
        ELSE /\ db' = MapStore(db, storage.ID, storage)
             /\ IF ~ok
                THEN /\ Moved("UpdateStorage", storage.ID, oldStorage.MountPath,
                               storage.MountPath, storage.Driver, "failed get storage driver")
                     /\ UNCHANGED <<drivers, storagesMap>>
                ELSE IF fault = "drop"
                THEN /\ Moved("UpdateStorage", storage.ID, oldStorage.MountPath,
                               storage.MountPath, storage.Driver, "failed drop storage")
                     /\ UNCHANGED <<drivers, storagesMap>>
                ELSE IF fault \in {"init", "initBound"}
                THEN /\ Moved("UpdateStorage", storage.ID, oldStorage.MountPath,
                               storage.MountPath, storage.Driver, "failed init storage")
                     /\ UNCHANGED storagesMap
                     /\ drivers' = MapStore(drivers, storageDriver,
                                            DriverInitFailed(storageDriver, storage,
                                                             fault = "initBound"))
                ELSE /\ Moved("UpdateStorage", storage.ID, oldStorage.MountPath,
                               storage.MountPath, storage.Driver, "nil")
                     /\ drivers' = MapStore(drivers, storageDriver, DriverInit(storage))
                     /\ storagesMap' = MapStore(storagesMap, storage.MountPath,
                                                storageDriver)

\* Reinitialize storing the driver under the old mount path again
ReinitializeOldKey(oldStorage, storage, fault) ==
    LET ok == oldStorage.MountPath \in DOMAIN storagesMap
        storageDriver == storagesMap[oldStorage.MountPath]
        renamed == IF oldStorage.MountPath # storage.MountPath
                   THEN MapDelete(storagesMap, oldStorage.MountPath)
                   ELSE storagesMap
    IN  IF fault = "db"
        THEN /\ Moved("UpdateStorage", storage.ID, oldStorage.MountPath,
                       storage.MountPath, storage.Driver, "failed update storage in database")
             /\ UNCHANGED <<db, drivers, storagesMap>>
        ELSE /\ db' = MapStore(db, storage.ID, storage)
             /\ IF ~ok
                THEN /\ Moved("UpdateStorage", storage.ID, oldStorage.MountPath,
                               storage.MountPath, storage.Driver, "failed get storage driver")
                     /\ storagesMap' = renamed
                     /\ UNCHANGED drivers
                ELSE IF fault = "drop"
                THEN /\ Moved("UpdateStorage", storage.ID, oldStorage.MountPath,
                               storage.MountPath, storage.Driver, "failed drop storage")
                     /\ storagesMap' = renamed
                     /\ UNCHANGED drivers
                ELSE IF fault \in {"init", "initBound"}
                THEN /\ Moved("UpdateStorage", storage.ID, oldStorage.MountPath,
                               storage.MountPath, storage.Driver, "failed init storage")
                     /\ storagesMap' = renamed
                     /\ drivers' = MapStore(drivers, storageDriver,
                                            DriverInitFailed(storageDriver, storage,
                                                             fault = "initBound"))
                ELSE /\ Moved("UpdateStorage", storage.ID, oldStorage.MountPath,
                               storage.MountPath, storage.Driver, "nil")
                     /\ drivers' = MapStore(drivers, storageDriver, DriverInit(storage))
                     /\ storagesMap' = MapStore(renamed, oldStorage.MountPath, storageDriver)

\* Reinitialize restoring the old row and the old registry key when the
\* lookup, Drop or Init fails
ReinitializeRollback(oldStorage, storage, fault) ==
    LET ok == oldStorage.MountPath \in DOMAIN storagesMap
        storageDriver == storagesMap[oldStorage.MountPath]
        renamed == IF oldStorage.MountPath # storage.MountPath
                   THEN MapDelete(storagesMap, oldStorage.MountPath)
                   ELSE storagesMap
    IN  IF fault = "db"
        THEN /\ Moved("UpdateStorage", storage.ID, oldStorage.MountPath,
                       storage.MountPath, storage.Driver, "failed update storage in database")
             /\ UNCHANGED <<db, drivers, storagesMap>>
        ELSE IF ~ok
        THEN /\ Moved("UpdateStorage", storage.ID, oldStorage.MountPath,
                       storage.MountPath, storage.Driver, "failed get storage driver")
             /\ UNCHANGED <<db, drivers, storagesMap>>
        ELSE IF fault = "drop"
        THEN /\ Moved("UpdateStorage", storage.ID, oldStorage.MountPath,
                       storage.MountPath, storage.Driver, "failed drop storage")
             /\ UNCHANGED <<db, drivers, storagesMap>>
        ELSE IF fault \in {"init", "initBound"}
        THEN /\ Moved("UpdateStorage", storage.ID, oldStorage.MountPath,
                       storage.MountPath, storage.Driver, "failed init storage")
             /\ UNCHANGED <<db, storagesMap>>
             /\ drivers' = MapStore(drivers, storageDriver,
                                    DriverInitFailed(storageDriver, storage, FALSE))
        ELSE /\ Moved("UpdateStorage", storage.ID, oldStorage.MountPath,
                       storage.MountPath, storage.Driver, "nil")
             /\ db' = MapStore(db, storage.ID, storage)
             /\ drivers' = MapStore(drivers, storageDriver, DriverInit(storage))
             /\ storagesMap' = MapStore(renamed, storage.MountPath, storageDriver)

\* operations.UpdateStorage from db.UpdateStorage on, once the driver type is
\* found unchanged; fault names the external call that returns an error:
\* "db" (db.UpdateStorage), "drop" (the driver's Drop), "init" (its Init, the
\* storage not bound), "initBound" (its Init, the storage bound) or "none"
Reinitialize(oldStorage, storage, fault) ==
    LET ok == oldStorage.MountPath \in DOMAIN storagesMap
        storageDriver == storagesMap[oldStorage.MountPath]
        renamed == IF oldStorage.MountPath # storage.MountPath
                   THEN MapDelete(storagesMap, oldStorage.MountPath)
                   ELSE storagesMap
    IN  IF fault = "db"
        THEN /\ Moved("UpdateStorage", storage.ID, oldStorage.MountPath,
                       storage.MountPath, storage.Driver, "failed update storage in database")
             /\ UNCHANGED <<db, drivers, storagesMap>>
        ELSE /\ db' = MapStore(db, storage.ID, storage)
             /\ IF ~ok
                THEN /\ Moved("UpdateStorage", storage.ID, oldStorage.MountPath,
                               storage.MountPath, storage.Driver, "failed get storage driver")
                     /\ storagesMap' = renamed
                     /\ UNCHANGED drivers
                ELSE IF fault = "drop"
                THEN /\ Moved("UpdateStorage", storage.ID, oldStorage.MountPath,
                               storage.MountPath, storage.Driver, "failed drop storage")
                     /\ storagesMap' = renamed
                     /\ UNCHANGED drivers
                ELSE IF fault \in {"init", "initBound"}
                THEN /\ Moved("UpdateStorage", storage.ID, oldStorage.MountPath,
                               storage.MountPath, storage.Driver, "failed init storage")
                     /\ storagesMap' = renamed
                     /\ drivers' = MapStore(drivers, storageDriver,
                                            DriverInitFailed(storageDriver, storage,
                                                             fault = "initBound"))
                ELSE /\ Moved("UpdateStorage", storage.ID, oldStorage.MountPath,
                               storage.MountPath, storage.Driver, "nil")
                     /\ drivers' = MapStore(drivers, storageDriver, DriverInit(storage))
                     /\ storagesMap' = MapStore(renamed, storage.MountPath, storageDriver)

\* UpdateStorage comparing the driver type after the new row is saved
UpdateStorageLateCheck(config, now, fault) ==
    LET storage == [config EXCEPT !.Modified = now,
                                  !.MountPath = StandardizePath(config.MountPath)]
    IN  /\ UNCHANGED <<nextId, balanceMap>>
        /\ calls' = <<>>
        /\ IF config.ID \notin DOMAIN db
           THEN /\ Return("UpdateStorage", config.ID, <<>>, config.Driver,
                          "failed get old storage")
                /\ UNCHANGED <<db, drivers, storagesMap>>
           ELSE IF db[config.ID].Driver # config.Driver
           THEN /\ Return("UpdateStorage", config.ID, db[config.ID].MountPath, config.Driver,
                          "driver cannot be changed")
                /\ db' = MapStore(db, storage.ID, storage)
                /\ UNCHANGED <<drivers, storagesMap>>
           ELSE Reinitialize(db[config.ID], storage, fault)

\* operations.UpdateStorage
UpdateStorage(config, now, fault) ==
    LET storage == [config EXCEPT !.Modified = now,
                                  !.MountPath = StandardizePath(config.MountPath)]
    IN  /\ UNCHANGED <<nextId, balanceMap>>
        /\ calls' = <<>>
        /\ IF config.ID \notin DOMAIN db
           THEN /\ Return("UpdateStorage", config.ID, <<>>, config.Driver,
                          "failed get old storage")
                /\ UNCHANGED <<db, drivers, storagesMap>>
           ELSE IF db[config.ID].Driver # config.Driver
           THEN /\ Return("UpdateStorage", config.ID, db[config.ID].MountPath, config.Driver,
                          "driver cannot be changed")
                /\ UNCHANGED <<db, drivers, storagesMap>>
           ELSE Reinitialize(db[config.ID], storage, fault)

\* DeleteStorageById removing the registry entry before it deletes the row
DeleteStorageByIdEntryFirst(id, fault) ==
    /\ UNCHANGED <<nextId, balanceMap>>
    /\ calls' = <<>>
    /\ IF id \notin DOMAIN db
       THEN /\ Return("DeleteStorageById", id, <<>>, "", "failed get storage")
            /\ UNCHANGED <<db, drivers, storagesMap>>
       ELSE
       LET storage == db[id]
           storageDriver == storagesMap[storage.MountPath]
       IN  IF storage.MountPath \notin DOMAIN storagesMap
           THEN /\ Return("DeleteStorageById", id, storage.MountPath, "",
                          "failed get storage driver")
                /\ UNCHANGED <<db, drivers, storagesMap>>
           ELSE IF fault = "drop"
           THEN /\ Return("DeleteStorageById", id, storage.MountPath, "", "failed drop storage")
                /\ UNCHANGED <<db, drivers, storagesMap>>
           ELSE /\ drivers' = MapStore(drivers, storageDriver, DriverDrop(storageDriver))
                /\ storagesMap' = MapDelete(storagesMap, storage.MountPath)
                /\ IF fault = "db"
                   THEN /\ Return("DeleteStorageById", id, storage.MountPath, "",
                                  "failed delete storage in database")
                        /\ UNCHANGED db
                   ELSE /\ db' = MapDelete(db, id)
                        /\ Return("DeleteStorageById", id, storage.MountPath, "", "nil")

\* operations.DeleteStorageById; fault names the external call that returns
\* an error: "drop" (the driver's Drop), "db" (db.DeleteStorageById) or "none"
DeleteStorageById(id, fault) ==
    LET dropErr == fault = "drop"
        dbErr == fault = "db"
    IN
    /\ UNCHANGED <<nextId, balanceMap>>
    /\ calls' = <<>>
    /\ IF id \notin DOMAIN db
       THEN /\ Return("DeleteStorageById", id, <<>>, "", "failed get storage")
            /\ UNCHANGED <<db, drivers, storagesMap>>
       ELSE
       LET storage == db[id]
           storageDriver == storagesMap[storage.MountPath]
       IN  IF storage.MountPath \notin DOMAIN storagesMap
           THEN /\ Return("DeleteStorageById", id, storage.MountPath, "",
                          "failed get storage driver")
                /\ UNCHANGED <<db, drivers, storagesMap>>
           ELSE IF dropErr
           THEN /\ Return("DeleteStorageById", id, storage.MountPath, "", "failed drop storage")
                /\ UNCHANGED <<db, drivers, storagesMap>>
           ELSE /\ drivers' = MapStore(drivers, storageDriver, DriverDrop(storageDriver))
                /\ IF dbErr
                   THEN /\ Return("DeleteStorageById", id, storage.MountPath, "",
                                  "failed delete storage in database")
                        /\ UNCHANGED <<db, storagesMap>>
                   ELSE /\ db' = MapDelete(db, id)
                        /\ storagesMap' = MapDelete(storagesMap, storage.MountPath)
                        /\ Return("DeleteStorageById", id, storage.MountPath, "", "nil")

\* operations.saveDriverStorage: the storage read from the driver is a copy,
\* its Addition is replaced by the serialized addition and the copy is saved
saveDriverStorage(d, fault) ==
    LET dbErr == fault = "db"
        storage == [GetStorage(d) EXCEPT !.Addition = Marshal(GetAddition(d))]
    IN  /\ UNCHANGED <<nextId, drivers, storagesMap, balanceMap>>
        /\ calls' = <<>>
        /\ IF dbErr
           THEN /\ Return("saveDriverStorage", storage.ID, storage.MountPath, "",
                          "failed update storage in database")
                /\ UNCHANGED db
           ELSE /\ db' = MapStore(db, storage.ID, storage)
                /\ Return("saveDriverStorage", storage.ID, storage.MountPath, "", "nil")

\* operations.MustSaveDriverStorage, called by a driver on itself: the error
\* of saveDriverStorage is logged
MustSaveDriverStorage(d, fault) ==
    /\ d \in DOMAIN drivers
    /\ drivers[d].status = "inited"
    /\ saveDriverStorage(d, fault)

\* a driver changes its own addition (a refreshed token)
DriverRefresh(d, addition) ==
    /\ d \in DOMAIN drivers
    /\ drivers[d].status = "inited"
    /\ drivers[d].Addition # addition
    /\ drivers' = [drivers EXCEPT ![d].Addition = addition]
    /\ UNCHANGED <<db, nextId, storagesMap, balanceMap, call, calls>>

\* ------------------------------------------------------------------ routing

\* the orders in which Range and Values may visit the entries of a map
Orders(m) ==
    {o \in [1..Cardinality(DOMAIN m) -> DOMAIN m] :
        \A i, j \in DOMAIN o : i # j => o[i] # o[j]}

\* one insertion step of sort.Slice: x goes before the first element it is
\* less than; smaller are the positions of the elements less than x
SortInsert(sorted, x, smaller) ==
    LET n == Cardinality(smaller)
    IN  SubSeq(sorted, 1, n) \o <<x>> \o SubSeq(sorted, n + 1, Len(sorted))

\* operations.GetStorageByVirtualPath: the exact lookup
GetStorageByVirtualPath(virtualPath) ==
    IF virtualPath \in DOMAIN storagesMap
    THEN [driver |-> storagesMap[virtualPath], err |-> "nil"]
    ELSE [driver |-> 0, err |-> "no virtual path for an storage is"]

\* RangeStorages with the prefix test made without the trailing slash
RECURSIVE RangeStoragesUnaligned(_, _, _, _, _)
RangeStoragesUnaligned(path, order, i, storages, curSlashCount) ==
    IF i > Len(order) THEN storages
    ELSE LET value == storagesMap[order[i]]
             actual == GetActualVirtualPath(GetStorage(value).MountPath)
             virtualPath == IF actual = <<"/">> THEN <<>> ELSE actual
             slashCount == SlashCount(virtualPath)
         IN  IF path # virtualPath /\ ~HasPrefix(path, virtualPath)
             THEN RangeStoragesUnaligned(path, order, i + 1, storages, curSlashCount)
             ELSE IF slashCount < curSlashCount
             THEN RangeStoragesUnaligned(path, order, i + 1, storages, curSlashCount)
             ELSE IF slashCount > curSlashCount
             THEN RangeStoragesUnaligned(path, order, i + 1, <<value>>, slashCount)
             ELSE RangeStoragesUnaligned(path, order, i + 1, Append(storages, value),
                                         curSlashCount)

\* the callback of storagesMap.Range in getStoragesByPath, applied to the
\* entries order[i..]; storages and curSlashCount are the captured variables
RECURSIVE RangeStorages(_, _, _, _, _)
RangeStorages(path, order, i, storages, curSlashCount) ==
    IF i > Len(order) THEN storages
    ELSE LET value == storagesMap[order[i]]
             actual == GetActualVirtualPath(GetStorage(value).MountPath)
             virtualPath == IF actual = <<"/">> THEN <<>> ELSE actual
             slashCount == SlashCount(virtualPath)
         IN  IF path # virtualPath /\ ~HasPrefix(path, virtualPath \o <<"/">>)
             THEN RangeStorages(path, order, i + 1, storages, curSlashCount)
             ELSE IF slashCount < curSlashCount
             THEN RangeStorages(path, order, i + 1, storages, curSlashCount)
             ELSE IF slashCount > curSlashCount
             THEN RangeStorages(path, order, i + 1, <<value>>, slashCount)
             ELSE RangeStorages(path, order, i + 1, Append(storages, value), curSlashCount)

\* the less function of the sort in getStoragesByPath
LessMountPath(x, y) == StrLess(GetStorage(x).MountPath, GetStorage(y).MountPath)

\* getStoragesByPath returning the storages in the order Range gave them
SortByMountPathSkipped(seq) == seq

\* sort.Slice(storages, ...) of getStoragesByPath
RECURSIVE SortByMountPath(_)
SortByMountPath(seq) ==
    IF seq = <<>> THEN <<>>
    ELSE LET sorted == SortByMountPath(Tail(seq))
         IN  SortInsert(sorted, Head(seq),
                        {i \in 1..Len(sorted) : LessMountPath(sorted[i], Head(seq))})

\* operations.getStoragesByPath, with Range visiting the keys in the given order
getStoragesByPath(path, order) ==
    SortByMountPath(RangeStorages(path, order, 1, <<>>, 0))

\* the less function of the sort in GetStorageVirtualFilesByPath
LessIndexMountPath(x, y) ==
    IF GetStorage(x).Index = GetStorage(y).Index
    THEN StrLess(GetStorage(x).MountPath, GetStorage(y).MountPath)
    ELSE GetStorage(x).Index < GetStorage(y).Index

\* GetStorageVirtualFilesByPath sorting by MountPath alone
SortByIndexIgnored(seq) == SortByMountPath(seq)

\* sort.Slice(storages, ...) of GetStorageVirtualFilesByPath
RECURSIVE SortByIndex(_)
SortByIndex(seq) ==
    IF seq = <<>> THEN <<>>
    ELSE LET sorted == SortByIndex(Tail(seq))
         IN  SortInsert(sorted, Head(seq),
                        {i \in 1..Len(sorted) : LessIndexMountPath(sorted[i], Head(seq))})

\* VirtualFiles without the test that skips balance-group members
RECURSIVE VirtualFilesWithBalance(_, _, _, _, _)
VirtualFilesWithBalance(prefix, storages, i, files, set) ==
    IF i > Len(storages) THEN files
    ELSE LET v == storages[i]
             virtualPath == GetStorage(v).MountPath
             name == FirstSegment(TrimPrefix(virtualPath, prefix))
         IN  IF Len(virtualPath) <= Len(prefix)
             THEN VirtualFilesWithBalance(prefix, storages, i + 1, files, set)
             ELSE IF ~HasPrefix(virtualPath, prefix)
             THEN VirtualFilesWithBalance(prefix, storages, i + 1, files, set)
             ELSE IF name \in set
             THEN VirtualFilesWithBalance(prefix, storages, i + 1, files, set)
             ELSE VirtualFilesWithBalance(prefix, storages, i + 1,
                               Append(files, [Name |-> name, Size |-> 0,
                                              Modified |-> GetStorage(v).Modified,
                                              IsFolder |-> TRUE]),
                               set \cup {name})

\* VirtualFiles without the test that skips a name already emitted
RECURSIVE VirtualFilesRepeated(_, _, _, _, _)
VirtualFilesRepeated(prefix, storages, i, files, set) ==
    IF i > Len(storages) THEN files
    ELSE LET v == storages[i]
             virtualPath == GetStorage(v).MountPath
             name == FirstSegment(TrimPrefix(virtualPath, prefix))
         IN  IF IsBalance(GetStorage(v).MountPath)
             THEN VirtualFilesRepeated(prefix, storages, i + 1, files, set)
             ELSE IF Len(virtualPath) <= Len(prefix)
             THEN VirtualFilesRepeated(prefix, storages, i + 1, files, set)
             ELSE IF ~HasPrefix(virtualPath, prefix)
             THEN VirtualFilesRepeated(prefix, storages, i + 1, files, set)
             ELSE VirtualFilesRepeated(prefix, storages, i + 1,
                               Append(files, [Name |-> name, Size |-> 0,
                                              Modified |-> GetStorage(v).Modified,
                                              IsFolder |-> TRUE]),
                               set \cup {name})

\* the loop of GetStorageVirtualFilesByPath over storages[i..]; files and set
\* are the loop's accumulators
RECURSIVE VirtualFiles(_, _, _, _, _)
VirtualFiles(prefix, storages, i, files, set) ==
    IF i > Len(storages) THEN files
    ELSE LET v == storages[i]
             virtualPath == GetStorage(v).MountPath
             name == FirstSegment(TrimPrefix(virtualPath, prefix))
         IN  IF IsBalance(GetStorage(v).MountPath)
             THEN VirtualFiles(prefix, storages, i + 1, files, set)
             ELSE IF Len(virtualPath) <= Len(prefix)
             THEN VirtualFiles(prefix, storages, i + 1, files, set)
             ELSE IF ~HasPrefix(virtualPath, prefix)
             THEN VirtualFiles(prefix, storages, i + 1, files, set)
             ELSE IF name \in set
             THEN VirtualFiles(prefix, storages, i + 1, files, set)
             ELSE VirtualFiles(prefix, storages, i + 1,
                               Append(files, [Name |-> name, Size |-> 0,
                                              Modified |-> GetStorage(v).Modified,
                                              IsFolder |-> TRUE]),
                               set \cup {name})

\* operations.GetStorageVirtualFilesByPath, with Values listing the keys in
\* the given order
GetStorageVirtualFilesByPath(prefix, order) ==
    LET values == [i \in DOMAIN order |-> storagesMap[order[i]]]
        storages == SortByIndex(values)
        std == StandardizePath(prefix)
        pre == IF std # <<"/">> THEN std \o <<"/">> ELSE std
    IN  VirtualFiles(pre, storages, 1, <<>>, {})

\* GetBalancedStorage returning the driver at the stored cursor and advancing
\* the cursor afterwards
GetBalancedStorageStale(rawPath, order) ==
    LET path == StandardizePath(rawPath)
        storages == getStoragesByPath(path, order)
        storageNum == Len(storages)
        virtualPath == GetActualVirtualPath(GetStorage(storages[1]).MountPath)
        ok == virtualPath \in DOMAIN balanceMap
        i == IF ok THEN balanceMap[virtualPath] % storageNum ELSE 0
    IN  /\ UNCHANGED <<db, nextId, drivers, storagesMap>>
        /\ Return("GetBalancedStorage", 0, path, "", "nil")
        /\ IF storageNum = 0
           THEN /\ calls' = Append(calls, [path |-> path, ok |-> FALSE, driver |-> 0])
                /\ UNCHANGED balanceMap
           ELSE IF storageNum = 1
           THEN /\ calls' = Append(calls, [path |-> path, ok |-> FALSE,
                                           driver |-> storages[1]])
                /\ UNCHANGED balanceMap
           ELSE /\ balanceMap' = MapStore(balanceMap, virtualPath,
                                          IF ok THEN (i + 1) % storageNum ELSE 0)
                /\ calls' = Append(calls, [path |-> path, ok |-> ok,
                                           driver |-> storages[i + 1]])

\* operations.GetBalancedStorage, with Range visiting the keys in the given
\* order; the caller keeps what it was given
GetBalancedStorage(rawPath, order) ==
    LET path == StandardizePath(rawPath)
        storages == getStoragesByPath(path, order)
        storageNum == Len(storages)
        virtualPath == GetActualVirtualPath(GetStorage(storages[1]).MountPath)
        ok == virtualPath \in DOMAIN balanceMap
        i == IF ok THEN (balanceMap[virtualPath] + 1) % storageNum ELSE 0
    IN  /\ UNCHANGED <<db, nextId, drivers, storagesMap>>
        /\ IF storageNum = 0
           THEN /\ Return("GetBalancedStorage", 0, path, "", "nil")
                /\ calls' = Append(calls, [path |-> path, ok |-> FALSE, driver |-> 0])
                /\ UNCHANGED balanceMap
           ELSE IF storageNum = 1
           THEN /\ Return("GetBalancedStorage", 0, path, "", "nil")
                /\ calls' = Append(calls, [path |-> path, ok |-> FALSE,
                                           driver |-> storages[1]])
                /\ UNCHANGED balanceMap
           ELSE /\ balanceMap' = MapStore(balanceMap, virtualPath, i)
                /\ Return("GetBalancedStorage", 0, path, "", "nil")
                /\ calls' = Append(calls, [path |-> path, ok |-> ok,
                                           driver |-> storages[i + 1]])

\* ------------------------------------------------------------------ statements

\* The operations again, statement by statement, for goroutines that run
\* them at the same time: each step is one call on storagesMap, balanceMap,
\* the storage table or a driver, with the statements around it that touch
\* only the goroutine's local variables.

\* goroutine g moves to the record local
Goto(g, local) == goroutines' = [goroutines EXCEPT ![g] = local]

\* BalancedResolve keeping a cursor for a single storage as well
BalancedResolveCounted(g, rawPath, order) ==
    LET path == StandardizePath(rawPath)
        storages == getStoragesByPath(path, order)
        storageNum == Len(storages)
    IN  /\ goroutines[g].pc = "idle"
        /\ UNCHANGED <<db, nextId, drivers, storagesMap, call, calls>>
        /\ IF storageNum = 0
           THEN /\ Goto(g, [pc |-> "done", op |-> "GetBalancedStorage",
                            storages |-> storages, result |-> 0])
                /\ UNCHANGED balanceMap
           ELSE IF storageNum = 1
           THEN /\ Goto(g, [pc |-> "done", op |-> "GetBalancedStorage",
                            storages |-> storages, result |-> storages[1]])
                /\ balanceMap' =
                      MapStore(balanceMap,
                               GetActualVirtualPath(GetStorage(storages[1]).MountPath), 0)
           ELSE /\ Goto(g, [pc |-> "load", op |-> "GetBalancedStorage",
                            storages |-> storages,
                            virtualPath |->
                                GetActualVirtualPath(GetStorage(storages[1]).MountPath)])
                /\ UNCHANGED balanceMap

\* GetBalancedStorage, lines 225-233: the path is standardized and resolved,
\* and a result of no or one storage is returned
BalancedResolve(g, rawPath, order) ==
    LET path == StandardizePath(rawPath)
        storages == getStoragesByPath(path, order)
        storageNum == Len(storages)
    IN  /\ goroutines[g].pc = "idle"
        /\ UNCHANGED <<db, nextId, drivers, storagesMap, balanceMap, call, calls>>
        /\ IF storageNum = 0
           THEN Goto(g, [pc |-> "done", op |-> "GetBalancedStorage", storages |-> storages,
                         result |-> 0])
           ELSE IF storageNum = 1
           THEN Goto(g, [pc |-> "done", op |-> "GetBalancedStorage", storages |-> storages,
                         result |-> storages[1]])
           ELSE Goto(g, [pc |-> "load", op |-> "GetBalancedStorage", storages |-> storages,
                         virtualPath |->
                             GetActualVirtualPath(GetStorage(storages[1]).MountPath)])

\* GetBalancedStorage, lines 235-239: the cursor is loaded and the index computed
BalancedLoad(g) ==
    LET local == goroutines[g]
        storageNum == Len(local.storages)
        ok == local.virtualPath \in DOMAIN balanceMap
        cur == IF ok THEN balanceMap[local.virtualPath] ELSE 0
        i == IF ok THEN (cur + 1) % storageNum ELSE 0
    IN  /\ local.pc = "load"
        /\ UNCHANGED <<db, nextId, drivers, storagesMap, balanceMap, call, calls>>
        /\ Goto(g, [pc |-> "store", op |-> "GetBalancedStorage",
                    storages |-> local.storages, virtualPath |-> local.virtualPath,
                    cur |-> cur, ok |-> ok, i |-> i])

\* BalancedStore storing the successor of the cursor it finds in the map
BalancedStoreFresh(g) ==
    LET local == goroutines[g]
        i == IF local.ok /\ local.virtualPath \in DOMAIN balanceMap
             THEN (balanceMap[local.virtualPath] + 1) % Len(local.storages)
             ELSE local.i
    IN  /\ local.pc = "store"
        /\ UNCHANGED <<db, nextId, drivers, storagesMap, call, calls>>
        /\ balanceMap' = MapStore(balanceMap, local.virtualPath, i)
        /\ Goto(g, [pc |-> "done", op |-> "GetBalancedStorage",
                    storages |-> local.storages, virtualPath |-> local.virtualPath,
                    cur |-> local.cur, ok |-> local.ok, i |-> i,
                    result |-> local.storages[i + 1]])

\* GetBalancedStorage, lines 240-244: the index is stored as the cursor and
\* the storage at the index returned
BalancedStore(g) ==
    LET local == goroutines[g]
    IN  /\ local.pc = "store"
        /\ UNCHANGED <<db, nextId, drivers, storagesMap, call, calls>>
        /\ balanceMap' = MapStore(balanceMap, local.virtualPath, local.i)
        /\ Goto(g, [pc |-> "done", op |-> "GetBalancedStorage",
                    storages |-> local.storages, virtualPath |-> local.virtualPath,
                    cur |-> local.cur, ok |-> local.ok, i |-> local.i,
                    result |-> local.storages[local.i + 1]])

\* goroutine g returns err from op about storage id
Done(g, op, id, err) == Goto(g, [pc |-> "done", op |-> op, id |-> id, err |-> err])

\* UpdateStorage, lines 63-71: the old row is loaded, the driver type
\* compared, Modified set and the mount path standardized
UpdateLoadOld(g, config, now) ==
    LET storage == [config EXCEPT !.Modified = now,
                                  !.MountPath = StandardizePath(config.MountPath)]
    IN  /\ goroutines[g].pc = "idle"
        /\ UNCHANGED <<db, nextId, drivers, storagesMap, balanceMap, call, calls>>
        /\ IF config.ID \notin DOMAIN db
           THEN Done(g, "UpdateStorage", config.ID, "failed get old storage")
           ELSE IF db[config.ID].Driver # config.Driver
           THEN Done(g, "UpdateStorage", config.ID, "driver cannot be changed")
           ELSE Goto(g, [pc |-> "save", op |-> "UpdateStorage", id |-> config.ID,
                         oldStorage |-> db[config.ID], storage |-> storage])

\* UpdateStorage, line 72: db.UpdateStorage saves the row
UpdateSave(g) ==
    LET local == goroutines[g]
    IN  /\ local.op = "UpdateStorage"
        /\ local.pc = "save"
        /\ UNCHANGED <<nextId, drivers, storagesMap, balanceMap, call, calls>>
        /\ db' = MapStore(db, local.storage.ID, local.storage)
        /\ Goto(g, [local EXCEPT !.pc = "lookup"])

\* UpdateStorage, line 76: the driver is looked up by the old mount path
UpdateLookup(g) ==
    LET local == goroutines[g]
        found == GetStorageByVirtualPath(local.oldStorage.MountPath)
    IN  /\ local.op = "UpdateStorage"
        /\ local.pc = "lookup"
        /\ UNCHANGED <<db, nextId, drivers, storagesMap, balanceMap, call, calls>>
        /\ Goto(g, [pc |-> "rename", op |-> "UpdateStorage", id |-> local.id,
                    oldStorage |-> local.oldStorage, storage |-> local.storage,
                    storageDriver |-> found.driver, err |-> found.err])

\* UpdateStorage, lines 77-83: the old key is deleted if the mount path
\* changed, and the error of the lookup returned
UpdateRename(g) ==
    LET local == goroutines[g]
    IN  /\ local.op = "UpdateStorage"
        /\ local.pc = "rename"
        /\ UNCHANGED <<db, nextId, drivers, balanceMap, call, calls>>
        /\ storagesMap' = IF local.oldStorage.MountPath # local.storage.MountPath
                          THEN MapDelete(storagesMap, local.oldStorage.MountPath)
                          ELSE storagesMap
        /\ IF local.err # "nil"
           THEN Done(g, "UpdateStorage", local.id, "failed get storage driver")
           ELSE Goto(g, [local EXCEPT !.pc = "drop"])

\* UpdateStorage, line 84: the driver is dropped
UpdateDrop(g) ==
    LET local == goroutines[g]
    IN  /\ local.op = "UpdateStorage"
        /\ local.pc = "drop"
        /\ UNCHANGED <<db, nextId, storagesMap, balanceMap, call, calls>>
        /\ drivers' = MapStore(drivers, local.storageDriver, DriverDrop(local.storageDriver))
        /\ Goto(g, [local EXCEPT !.pc = "init"])

\* UpdateStorage, line 88: the driver is initialized with the new storage
UpdateInit(g) ==
    LET local == goroutines[g]
    IN  /\ local.op = "UpdateStorage"
        /\ local.pc = "init"
        /\ UNCHANGED <<db, nextId, storagesMap, balanceMap, call, calls>>
        /\ drivers' = MapStore(drivers, local.storageDriver, DriverInit(local.storage))
        /\ Goto(g, [local EXCEPT !.pc = "store"])

\* UpdateStorage, lines 92-93: the driver is stored under the new mount path
UpdateStore(g) ==
    LET local == goroutines[g]
    IN  /\ local.op = "UpdateStorage"
        /\ local.pc = "store"
        /\ UNCHANGED <<db, nextId, drivers, balanceMap, call, calls>>
        /\ storagesMap' = MapStore(storagesMap, local.storage.MountPath, local.storageDriver)
        /\ Done(g, "UpdateStorage", local.id, "nil")

\* DeleteStorageById, lines 97-100: the row is loaded
DeleteLoad(g, id) ==
    /\ goroutines[g].pc = "idle"
    /\ UNCHANGED <<db, nextId, drivers, storagesMap, balanceMap, call, calls>>
    /\ IF id \notin DOMAIN db
       THEN Done(g, "DeleteStorageById", id, "failed get storage")
       ELSE Goto(g, [pc |-> "lookup", op |-> "DeleteStorageById", id |-> id,
                     storage |-> db[id]])

\* DeleteStorageById, lines 101-104: the driver is looked up by the mount path
DeleteLookup(g) ==
    LET local == goroutines[g]
        found == GetStorageByVirtualPath(local.storage.MountPath)
    IN  /\ local.op = "DeleteStorageById"
        /\ local.pc = "lookup"
        /\ UNCHANGED <<db, nextId, drivers, storagesMap, balanceMap, call, calls>>
        /\ IF found.err # "nil"
           THEN Done(g, "DeleteStorageById", local.id, "failed get storage driver")
           ELSE Goto(g, [pc |-> "drop", op |-> "DeleteStorageById", id |-> local.id,
                         storage |-> local.storage, storageDriver |-> found.driver])

\* DeleteStorageById, lines 106-108: the driver is dropped
DeleteDrop(g) ==
    LET local == goroutines[g]
    IN  /\ local.op = "DeleteStorageById"
        /\ local.pc = "drop"
        /\ UNCHANGED <<db, nextId, storagesMap, balanceMap, call, calls>>
        /\ drivers' = MapStore(drivers, local.storageDriver, DriverDrop(local.storageDriver))
        /\ Goto(g, [local EXCEPT !.pc = "row"])

\* DeleteStorageById, lines 110-112: the row is deleted
DeleteRow(g) ==
    LET local == goroutines[g]
    IN  /\ local.op = "DeleteStorageById"
        /\ local.pc = "row"
        /\ UNCHANGED <<nextId, drivers, storagesMap, balanceMap, call, calls>>
        /\ db' = MapDelete(db, local.id)
        /\ Goto(g, [local EXCEPT !.pc = "entry"])

\* DeleteStorageById, lines 114-115: the registry entry is deleted
DeleteEntry(g) ==
    LET local == goroutines[g]
    IN  /\ local.op = "DeleteStorageById"
        /\ local.pc = "entry"
        /\ UNCHANGED <<db, nextId, drivers, balanceMap, call, calls>>
        /\ storagesMap' = MapDelete(storagesMap, local.storage.MountPath)
        /\ Done(g, "DeleteStorageById", local.id, "nil")

\* ------------------------------------------------------------------ inputs

\* "/"
PathRoot == <<"/">>
\* "/a"
PathA == <<"/", "a">>
\* "/a/b"
PathAB == <<"/", "a", "/", "b">>
\* "/a/b/", not yet standardized
PathABSlash == <<"/", "a", "/", "b", "/">>
\* "/a/b.balance1"
PathABBalance1 == PathAB \o balance \o <<"1">>
\* "/a/b.balance2"
PathABBalance2 == PathAB \o balance \o <<"2">>
\* "/a/b/c"
PathABC == <<"/", "a", "/", "b", "/", "c">>
\* "/a/c"
PathAC == <<"/", "a", "/", "c">>
\* "/a/d"
PathAD == <<"/", "a", "/", "d">>
\* "/a/d/e"
PathADE == <<"/", "a", "/", "d", "/", "e">>
\* "/av"
PathAV == <<"/", "a", "v">>

\* the mount paths given to the lifecycle operations
MountPaths == {PathAB, PathABSlash, PathABBalance1}

\* the mount paths given in the routing specification
RoutePaths == {PathRoot, PathA, PathAB, PathABSlash, PathABBalance1, PathADE, PathAV}

\* the paths the resolver is asked about
QueryPaths ==
    {PathRoot, PathA, PathAB, PathABSlash, PathABBalance1, PathABC, PathAC, PathAD, PathAV}

\* the mount paths of the example of GetStorageVirtualFilesByPath
ExamplePaths == {PathAB, PathAC, PathADE, PathABBalance1, PathAV}

\* the prefixes GetStorageVirtualFilesByPath is asked about
Prefixes == {PathRoot, PathA, PathAB, PathABSlash, PathAD, PathAV}

\* the mount paths given in the listing specification
ListingPaths == {PathAB, PathABC, PathABBalance1, PathAC, PathAV}

\* the prefixes asked about in the listing specification
ListingPrefixes == {PathRoot, PathA, PathABSlash}

\* the mount paths given in the balancing specification
GroupPaths == {PathAB, PathABBalance1, PathABBalance2}

\* the storage configurations a caller passes for the given ids
Configs(ids, paths, driverNames, indexes) ==
    [ID : ids, MountPath : paths, Driver : driverNames,
     Addition : {Marshal("t1")}, Index : indexes, Modified : {0}]

\* the clock readings of time.Now()
Times == {1}

\* the external failures DeleteStorageById may meet
DeleteFaults == {"none", "drop", "db"}

\* ------------------------------------------------------------------ lifecycle specification

\* the lifecycle operations and the drivers' own saves, with every external
\* call free to fail

Create ==
    /\ nextId <= MaxStorages
    /\ \E config \in Configs({0}, MountPaths, {"Local", "S3", "Nope"}, {0}),
          now \in Times, fault \in {"none", "db", "init"} :
          CreateStorage(config, now, fault)
    /\ UNCHANGED goroutines

Update ==
    /\ \E config \in Configs(1..MaxStorages, MountPaths, {"Local", "S3"}, {0}),
          now \in Times, fault \in {"none", "db", "drop", "init", "initBound"} :
          UpdateStorage(config, now, fault)
    /\ UNCHANGED goroutines

Delete ==
    /\ \E id \in 1..MaxStorages, fault \in DeleteFaults :
           DeleteStorageById(id, fault)
    /\ UNCHANGED goroutines

Save ==
    /\ \E d \in DOMAIN drivers, fault \in {"none", "db"} : MustSaveDriverStorage(d, fault)
    /\ UNCHANGED goroutines

Next == Create \/ Update \/ Delete \/ Save

Spec == Init /\ [][Next]_vars

\* ------------------------------------------------------------------ overlap specification

\* the lifecycle operations and the drivers' own saves with no external
\* failure, over more storages than mount paths

OverlapCreate ==
    /\ nextId <= MaxOverlap
    /\ \E config \in Configs({0}, MountPaths, {"Local"}, {0}), now \in Times :
          CreateStorage(config, now, "none")
    /\ UNCHANGED goroutines

OverlapUpdate ==
    /\ \E config \in Configs(1..MaxOverlap, MountPaths, {"Local"}, {0}), now \in Times :
          UpdateStorage(config, now, "none")
    /\ UNCHANGED goroutines

OverlapDelete ==
    /\ \E id \in 1..MaxOverlap : DeleteStorageById(id, "none")
    /\ UNCHANGED goroutines

OverlapSave ==
    /\ \E d \in DOMAIN drivers : MustSaveDriverStorage(d, "none")
    /\ UNCHANGED goroutines

NextOverlap == OverlapCreate \/ OverlapUpdate \/ OverlapDelete \/ OverlapSave

SpecOverlap == Init /\ [][NextOverlap]_vars

\* ------------------------------------------------------------------ success specification

\* the lifecycle operations one after the other, every call returning success

SuccessCreate ==
    /\ nextId <= MaxOverlap
    /\ \E config \in Configs({0}, MountPaths, {"Local"}, {0}), now \in Times :
          CreateStorage(config, now, "none")
    /\ call'.err = "nil"
    /\ UNCHANGED goroutines

SuccessUpdate ==
    /\ \E config \in Configs(DOMAIN db, MountPaths, {"Local"}, {0}), now \in Times :
          UpdateStorage(config, now, "none")
    /\ call'.err = "nil"
    /\ UNCHANGED goroutines

SuccessDelete ==
    /\ \E id \in DOMAIN db : DeleteStorageById(id, "none")
    /\ call'.err = "nil"
    /\ UNCHANGED goroutines

NextSuccess == SuccessCreate \/ SuccessUpdate \/ SuccessDelete

SpecSuccess == Init /\ [][NextSuccess]_vars

\* ------------------------------------------------------------------ synchronization specification

\* drivers refreshing their addition and saving themselves between creations
\* and updates; only the save may fail

SyncCreate ==
    /\ nextId <= MaxStorages
    /\ \E config \in Configs({0}, MountPaths, {"Local"}, {0}), now \in Times :
          CreateStorage(config, now, "none")
    /\ UNCHANGED goroutines

SyncUpdate ==
    /\ \E config \in Configs(1..MaxStorages, MountPaths, {"Local"}, {0}), now \in Times :
          UpdateStorage(config, now, "none")
    /\ UNCHANGED goroutines

SyncSave ==
    /\ \E d \in DOMAIN drivers, fault \in {"none", "db"} : MustSaveDriverStorage(d, fault)
    /\ UNCHANGED goroutines

SyncRefresh ==
    /\ \E d \in DOMAIN drivers, addition \in Additions : DriverRefresh(d, addition)
    /\ UNCHANGED goroutines

NextSync == SyncCreate \/ SyncUpdate \/ SyncSave \/ SyncRefresh

SpecSync == Init /\ [][NextSync]_vars

\* ------------------------------------------------------------------ routing specification

\* mounts created without failure over a hierarchy of mount paths

RouteCreate ==
    /\ nextId <= MaxMounts
    /\ \E config \in Configs({0}, RoutePaths, {"Local"}, {0}), now \in Times :
          CreateStorage(config, now, "none")
    /\ UNCHANGED goroutines

RouteDelete ==
    /\ \E id \in DOMAIN db : DeleteStorageById(id, "none")
    /\ UNCHANGED goroutines

NextRoute == RouteCreate \/ RouteDelete

SpecRoute == Init /\ [][NextRoute]_vars

\* ------------------------------------------------------------------ example specification

\* the mounts of the example, each created once and without failure

ExampleCreate ==
    /\ \E config \in Configs({0}, ExamplePaths \ DOMAIN storagesMap, {"Local"}, {0}),
          now \in Times :
          CreateStorage(config, now, "none")
    /\ UNCHANGED goroutines

NextExample == ExampleCreate

SpecExample == Init /\ [][NextExample]_vars

\* ------------------------------------------------------------------ listing specification

\* mounts created without failure at nested mount paths, with different
\* Index values and at different times

ListCreate ==
    /\ nextId <= MaxListed
    /\ \E config \in Configs({0}, ListingPaths, {"Local"}, {0, 1}) :
          CreateStorage(config, nextId, "none")
    /\ UNCHANGED goroutines

NextListing == ListCreate

SpecListing == Init /\ [][NextListing]_vars

\* ------------------------------------------------------------------ balancing specification

\* one balance group growing and shrinking, and callers asking for its storage

GroupCreate ==
    /\ nextId <= MaxGroup
    /\ \E config \in Configs({0}, GroupPaths, {"Local"}, {0}), now \in Times :
          CreateStorage(config, now, "none")
    /\ UNCHANGED goroutines

GroupDelete ==
    /\ \E id \in DOMAIN db : DeleteStorageById(id, "none")
    /\ UNCHANGED goroutines

Balanced ==
    /\ Len(calls) < MaxCalls
    /\ \E path \in {PathAB, PathABSlash}, order \in Orders(storagesMap) :
          GetBalancedStorage(path, order)
    /\ UNCHANGED goroutines

NextBalance == GroupCreate \/ GroupDelete \/ Balanced

SpecBalance == Init /\ [][NextBalance]_vars

\* ------------------------------------------------------------------ cursor specification

\* one balance group growing and shrinking while callers ask for its storage
\* one after the other, and then two callers that ask at the same time

\* the goroutines that call GetBalancedStorage
Callers == {"g1", "g2"}

\* no caller has begun
NotBegun == \A g \in Callers : goroutines[g].pc = "idle"

CursorCreate ==
    /\ NotBegun
    /\ nextId <= MaxGroup
    /\ \E config \in Configs({0}, GroupPaths, {"Local"}, {0}), now \in Times :
          CreateStorage(config, now, "none")
    /\ UNCHANGED goroutines

CursorDelete ==
    /\ NotBegun
    /\ \E id \in DOMAIN db : DeleteStorageById(id, "none")
    /\ UNCHANGED goroutines

CursorSeed ==
    /\ NotBegun
    /\ Len(calls) < MaxSeeded
    /\ \E order \in Orders(storagesMap) : GetBalancedStorage(PathAB, order)
    /\ UNCHANGED goroutines

CursorResolve ==
    \E g \in Callers, order \in Orders(storagesMap) :
        BalancedResolve(g, PathABSlash, order)

CursorLoad == \E g \in Callers : BalancedLoad(g)

CursorStore == \E g \in Callers : BalancedStore(g)

NextCursor ==
    \/ CursorCreate
    \/ CursorDelete
    \/ CursorSeed
    \/ CursorResolve
    \/ CursorLoad
    \/ CursorStore

SpecCursor == Init /\ [][NextCursor]_vars

\* ------------------------------------------------------------------ race specification

\* storages created without failure, then one UpdateStorage and one
\* DeleteStorageById running at the same time

\* no goroutine has begun an UpdateStorage or a DeleteStorageById
NotRacing == goroutines["update"].pc = "idle" /\ goroutines["delete"].pc = "idle"

RaceCreate ==
    /\ NotRacing
    /\ nextId <= MaxRaced
    /\ \E config \in Configs({0}, {PathAB, PathABBalance1}, {"Local"}, {0}), now \in Times :
          CreateStorage(config, now, "none")
    /\ UNCHANGED goroutines

RaceUpdate ==
    \/ \E config \in Configs(DOMAIN db, {PathAB, PathABBalance1}, {"Local"}, {0}),
          now \in Times :
          UpdateLoadOld("update", config, now)
    \/ UpdateSave("update")
    \/ UpdateLookup("update")
    \/ UpdateRename("update")
    \/ UpdateDrop("update")
    \/ UpdateInit("update")
    \/ UpdateStore("update")

RaceDelete ==
    \/ \E id \in DOMAIN db : DeleteLoad("delete", id)
    \/ DeleteLookup("delete")
    \/ DeleteDrop("delete")
    \/ DeleteRow("delete")
    \/ DeleteEntry("delete")

NextRace == RaceCreate \/ RaceUpdate \/ RaceDelete

SpecRace == Init /\ [][NextRace]_vars

\* ------------------------------------------------------------------ properties

\* the elements of a sequence
Range(seq) == {seq[i] : i \in DOMAIN seq}

\* the driver instances the registry holds
Registered == {storagesMap[k] : k \in DOMAIN storagesMap}

\* the actual virtual path of a registered driver, root being the empty prefix
ActualOf(d) ==
    LET actual == GetActualVirtualPath(GetStorage(d).MountPath)
    IN  IF actual = PathRoot THEN <<>> ELSE actual

\* v equals p or is a prefix of p that ends where a segment of p ends
Matches(v, p) ==
    \/ v = p
    \/ /\ Len(v) < Len(p)
       /\ \A i \in 1..Len(v) : p[i] = v[i]
       /\ p[Len(v) + 1] = "/"

\* the registered drivers whose actual virtual path is the longest match of p
Deepest(p) ==
    {d \in Registered :
        /\ Matches(ActualOf(d), p)
        /\ \A e \in Registered :
              Matches(ActualOf(e), p) => Len(ActualOf(e)) <= Len(ActualOf(d))}

\* C1: getStoragesByPath(p) returns exactly the registered drivers whose
\* actual virtual path is the deepest one that equals p or is a '/'-aligned
\* prefix of p, each of them once, whatever the order of Range
C1_ResolveDeepest ==
    \A p \in QueryPaths, o \in Orders(storagesMap) :
        LET storages == getStoragesByPath(p, o)
        IN  /\ Range(storages) = Deepest(p)
            /\ Len(storages) = Cardinality(Deepest(p))

\* a balance group of two is returned for a path below it while a shallower
\* mount that matches the path, and a mount that does not, are left out
C1_Witness ==
    \E p \in QueryPaths, o \in Orders(storagesMap) :
        LET storages == getStoragesByPath(p, o)
        IN  /\ Len(storages) = 2
            /\ ActualOf(storages[1]) # p
            /\ \E d \in Registered \ Range(storages) : Matches(ActualOf(d), p)

\* the balance group of the balancing specification, in the resolver's order
Group(o) == getStoragesByPath(PathAB, o)

\* the calls made in a row began with no cursor stored for a group of two or more
FreshGroup(o) ==
    /\ Len(Group(o)) >= 2
    /\ calls # <<>>
    /\ ~calls[1].ok

\* C2 as stated: from no cursor, consecutive GetBalancedStorage calls return
\* the group members at indices 0,0,1,2,...,N-1 and then wrap to 0
C2_RoundRobinRepeatsFirst ==
    \A o \in Orders(storagesMap) :
        FreshGroup(o) =>
            \A k \in 1..Len(calls) :
                calls[k].driver =
                    Group(o)[(IF k = 1 THEN 0 ELSE (k - 2) % Len(Group(o))) + 1]

\* C2 amended: from no cursor, consecutive GetBalancedStorage calls return
\* the group members at indices 0,1,2,...,N-1 of the ascending-MountPath
\* order, and the call after index N-1 wraps to index 0
C2_RoundRobin ==
    \A o \in Orders(storagesMap) :
        FreshGroup(o) =>
            \A k \in 1..Len(calls) :
                calls[k].driver = Group(o)[((k - 1) % Len(Group(o))) + 1]

\* a group of three has been asked four times from no cursor: the fourth
\* call has wrapped
C2_Witness ==
    \E o \in Orders(storagesMap) :
        /\ FreshGroup(o)
        /\ Len(Group(o)) = 3
        /\ Len(calls) >= 4
        /\ calls[4].driver = Group(o)[1]

\* the prefix GetStorageVirtualFilesByPath matches mount paths against
ListPrefix(p) ==
    IF StandardizePath(p) = PathRoot THEN PathRoot ELSE StandardizePath(p) \o <<"/">>

\* storage id, mounted at path, is gone from routing: no resolver result
\* holds a driver exposing storage id, every synthetic entry comes from a
\* registered storage other than id, and the exact lookup of path fails
Removed(id, path) ==
    /\ \A p \in QueryPaths, o \in Orders(storagesMap) :
          \A d \in Range(getStoragesByPath(p, o)) : GetStorage(d).ID # id
    /\ \A p \in Prefixes, o \in Orders(storagesMap) :
          \A f \in Range(GetStorageVirtualFilesByPath(p, o)) :
             \E d \in Registered :
                /\ GetStorage(d).ID # id
                /\ HasPrefix(GetStorage(d).MountPath, ListPrefix(p) \o f.Name)
    /\ GetStorageByVirtualPath(path).err # "nil"

\* C3: once DeleteStorageById(id) has returned success, the deleted
\* storage's driver is in no ResolveByPath result, its mount path gives no
\* ListVirtualChildren entry, and the exact lookup of its old mount path fails
C3_DeleteRemoves ==
    (call.op = "DeleteStorageById" /\ call.err = "nil") => Removed(call.id, call.path)

\* C4: UpdateStorage with a driver type other than the persisted row's
\* returns an error and leaves the rows, the registry and the driver
\* instances (no Drop, no Init) as they were
C4_DriverImmutable ==
    [][(/\ call'.op = "UpdateStorage"
        /\ call'.id \in DOMAIN db
        /\ call'.driver # db[call'.id].Driver)
       => /\ call'.err = "driver cannot be changed"
          /\ UNCHANGED <<db, storagesMap, drivers>>]_vars

\* an update of a registered storage has been refused for its driver type
C4_Witness ==
    /\ call.op = "UpdateStorage"
    /\ call.err = "driver cannot be changed"
    /\ call.id \in DOMAIN db
    /\ call.path \in DOMAIN storagesMap

\* the last call was a successful UpdateStorage that changed the mount path
Renamed ==
    /\ call.op = "UpdateStorage"
    /\ call.err = "nil"
    /\ call.id \in DOMAIN db
    /\ db[call.id].MountPath # call.path

\* after a rename to path new: no entry under the old path, the driver of
\* the updated storage under new
Relocated(new) ==
    /\ GetStorageByVirtualPath(call.path).err # "nil"
    /\ GetStorageByVirtualPath(new).err = "nil"
    /\ GetStorage(GetStorageByVirtualPath(new).driver).ID = call.id

\* C5 as stated: after a successful rename the old key fails, the new key
\* holds the storage's driver and getStoragesByPath(new) contains it
C5_RenameResolvesNew ==
    Renamed =>
        LET new == db[call.id].MountPath
        IN  /\ Relocated(new)
            /\ \A o \in Orders(storagesMap) :
                  GetStorageByVirtualPath(new).driver \in Range(getStoragesByPath(new, o))

\* C5 amended: after a successful rename the old key fails, the new key
\* holds the storage's driver and getStoragesByPath of the actual virtual
\* path of new (new without its balance suffix) contains it
C5_RenameResolvesActual ==
    Renamed =>
        LET new == db[call.id].MountPath
        IN  /\ Relocated(new)
            /\ \A o \in Orders(storagesMap) :
                  GetStorageByVirtualPath(new).driver
                      \in Range(getStoragesByPath(GetActualVirtualPath(new), o))

\* a storage has been renamed onto a mount path with a balance suffix
C5_Witness ==
    /\ Renamed
    /\ IsBalance(db[call.id].MountPath)
    /\ ~IsBalance(call.path)

\* C6: a driver is in the registry if and only if it is initialized and not
\* dropped, also after lifecycle operations that returned an error
C6_RegisteredIffMounted ==
    \A d \in DOMAIN drivers : d \in Registered <=> drivers[d].status = "inited"

\* C7: after a successful CreateStorage the exact lookup of the standardized
\* mount path gives a driver whose Storage has the id of the new row
C7_CreateRegistersId ==
    (call.op = "CreateStorage" /\ call.err = "nil") =>
        /\ call.id \in DOMAIN db
        /\ db[call.id].MountPath = call.path
        /\ GetStorageByVirtualPath(call.path).err = "nil"
        /\ GetStorage(GetStorageByVirtualPath(call.path).driver).ID = db[call.id].ID

\* a second storage has been created, on a mount path given with a trailing
\* slash or already taken
C7_Witness ==
    /\ call.op = "CreateStorage"
    /\ call.err = "nil"
    /\ call.id = 2
    /\ 1 \in DOMAIN db
    /\ db[1].MountPath = call.path

\* C10: after a successful CreateStorage, UpdateStorage or
\* saveDriverStorage the Storage the affected driver exposes equals the row
\* of the same id
C10_ExposedEqualsRow ==
    (call.err = "nil" /\ call.op \in {"CreateStorage", "UpdateStorage", "saveDriverStorage"})
    => /\ call.id \in DOMAIN db
       /\ IF call.op = "saveDriverStorage"
          THEN \E d \in DOMAIN drivers :
                  /\ drivers[d].status = "inited"
                  /\ GetStorage(d).ID = call.id
                  /\ GetStorage(d) = db[call.id]
          ELSE /\ db[call.id].MountPath \in DOMAIN storagesMap
               /\ GetStorage(storagesMap[db[call.id].MountPath]) = db[call.id]

\* the first segments that follow the prefix pre in the mount paths of the
\* registered storages without a balance suffix that are longer than pre and
\* begin with it
Children(pre) ==
    {n \in UNION {{SubSeq(GetStorage(d).MountPath, Len(pre) + 1, j) :
                       j \in (Len(pre) + 1)..Len(GetStorage(d).MountPath)} :
                  d \in {e \in Registered :
                            /\ ~IsBalance(GetStorage(e).MountPath)
                            /\ Len(GetStorage(e).MountPath) > Len(pre)
                            /\ \A i \in 1..Len(pre) : GetStorage(e).MountPath[i] = pre[i]}} :
        /\ \A i \in 1..Len(n) : n[i] # "/"
        /\ \E d \in Registered :
              /\ ~IsBalance(GetStorage(d).MountPath)
              /\ HasPrefix(GetStorage(d).MountPath, pre \o n)
              /\ \/ Len(GetStorage(d).MountPath) = Len(pre \o n)
                 \/ GetStorage(d).MountPath[Len(pre \o n) + 1] = "/"}

\* the names of a listing, in its order
Names(files) == [i \in DOMAIN files |-> files[i].Name]

\* the registry holds exactly the mounts of the example
ExampleMounted == DOMAIN storagesMap = ExamplePaths

\* C8: GetStorageVirtualFilesByPath(prefix) returns one folder entry per
\* distinct first segment following the prefix among the registered mounts
\* without a balance suffix that lie below the prefix, and for the mounts
\* /a/b, /a/c, /a/d/e, /a/b.balance1, /av the entries of "/a" are b, c and d
C8_VirtualChildren ==
    \A o \in Orders(storagesMap) :
        /\ \A p \in Prefixes :
              LET files == GetStorageVirtualFilesByPath(p, o)
              IN  /\ Range(Names(files)) = Children(ListPrefix(p))
                  /\ Len(files) = Cardinality(Children(ListPrefix(p)))
                  /\ \A f \in Range(files) : f.IsFolder /\ f.Size = 0
        /\ ExampleMounted =>
              Range(Names(GetStorageVirtualFilesByPath(PathA, o)))
                  = {<<"b">>, <<"c">>, <<"d">>}

\* the mounts of the example are registered and "/a" lists three entries
C8_Witness ==
    /\ ExampleMounted
    /\ \E o \in Orders(storagesMap) : Len(GetStorageVirtualFilesByPath(PathA, o)) = 3

MountPathsOf(storages) == [i \in DOMAIN storages |-> GetStorage(storages[i]).MountPath]

\* C11: for a fixed registry state getStoragesByPath(p) is in strictly
\* ascending MountPath order and is the same sequence whatever order Range
\* visits the entries in
C11_SortedDeterministic ==
    \A p \in QueryPaths :
        LET first == getStoragesByPath(p, CHOOSE o \in Orders(storagesMap) : TRUE)
        IN  /\ \A i, j \in DOMAIN first :
                  i < j => StrLess(MountPathsOf(first)[i], MountPathsOf(first)[j])
            /\ \A o \in Orders(storagesMap) : getStoragesByPath(p, o) = first

\* a group of three is resolved although Range visits it in descending order
C11_Witness ==
    \E p \in QueryPaths, o \in Orders(storagesMap) :
        /\ Len(getStoragesByPath(p, o)) = 3
        /\ \A i, j \in DOMAIN o : i < j => StrLess(o[j], o[i])
        /\ MountPathsOf(getStoragesByPath(p, o)) = <<PathAB, PathABBalance1, PathABBalance2>>

\* what a CreateStorage step that returned err leaves behind, but for the
\* registry after a failed Init: an unregistered driver type or a failed
\* db.CreateStorage change nothing (no row, no Init, no entry); after a
\* failed Init the new row is in the table; after success the entry under
\* the mount path is a driver initialized with the row, id included
CreateOrdered(err) ==
    CASE err = "failed get driver new" ->
            /\ call'.driver \notin driverNewMap
            /\ UNCHANGED <<db, nextId, drivers, storagesMap>>
      [] err = "failed create storage in database" ->
            UNCHANGED <<db, nextId, drivers, storagesMap>>
      [] err = "failed init storage but storage is already created" ->
            /\ call'.id \notin DOMAIN db
            /\ call'.id \in DOMAIN db'
            /\ db'[call'.id].ID = call'.id
            /\ db'[call'.id].MountPath = call'.path
      [] err = "nil" ->
            /\ call'.id \notin DOMAIN db
            /\ call'.id \in DOMAIN db'
            /\ call'.path \in DOMAIN storagesMap'
            /\ drivers'[storagesMap'[call'.path]].Storage = db'[call'.id]
            /\ drivers'[storagesMap'[call'.path]].Storage.ID = call'.id
            /\ drivers'[storagesMap'[call'.path]].status = "inited"
      [] OTHER -> FALSE

LateUpdateErrors ==
    {"failed get storage driver", "failed drop storage", "failed init storage"}

\* what an UpdateStorage step leaves behind, but for the new mount path
\* after a failure: after an error of the lookup, Drop or Init the row holds
\* the new configuration and a changed mount path has lost its old key;
\* after success, and only then, the entry under the new mount path is the
\* driver initialized with the row
UpdateNotRolledBack ==
    /\ call'.err \in LateUpdateErrors =>
          /\ call'.id \in DOMAIN db'
          /\ db'[call'.id].ID = call'.id
          /\ db'[call'.id].MountPath = call'.new
          /\ call'.new # call'.path => call'.path \notin DOMAIN storagesMap'
    /\ call'.err = "nil" =>
          /\ db'[call'.id].MountPath = call'.new
          /\ call'.new \in DOMAIN storagesMap'
          /\ drivers'[storagesMap'[call'.new]].status = "inited"
          /\ drivers'[storagesMap'[call'.new]].Storage = db'[call'.id]

C14_DeleteTornApart ==
    \A id \in DOMAIN db :
        db[id].MountPath \in DOMAIN storagesMap =>
            /\ \E fault \in DeleteFaults :
                  ENABLED (/\ DeleteStorageById(id, fault)
                           /\ call'.err # "nil"
                           /\ id \notin DOMAIN db'
                           /\ db[id].MountPath \in DOMAIN storagesMap')
            /\ \E fault \in DeleteFaults :
                  ENABLED (/\ DeleteStorageById(id, fault)
                           /\ call'.err # "nil"
                           /\ id \in DOMAIN db'
                           /\ db[id].MountPath \notin DOMAIN storagesMap')

\* C14 amended: a failure between the steps of DeleteStorageById leaves the
\* row and the registry entry of its mount path both in place, after a
\* failed row deletion with the entry's driver already dropped; the row is
\* deleted and the entry removed only together, by the call that succeeds
C14_DeleteTogether ==
    [][call'.op = "DeleteStorageById" =>
          /\ call'.err # "nil" => UNCHANGED <<db, storagesMap>>
          /\ call'.err = "failed delete storage in database" =>
                /\ call'.id \in DOMAIN db'
                /\ call'.path \in DOMAIN storagesMap'
                /\ drivers'[storagesMap'[call'.path]].status = "dropped"
          /\ call'.err = "nil" =>
                /\ call'.id \in DOMAIN db
                /\ call'.id \notin DOMAIN db'
                /\ call'.path \in DOMAIN storagesMap
                /\ storagesMap' = MapDelete(storagesMap, call'.path)]_vars

\* the row deletion of a DeleteStorageById failed after Drop: row and entry
\* are both still there
C14_Witness ==
    /\ call.op = "DeleteStorageById"
    /\ call.err = "failed delete storage in database"
    /\ call.id \in DOMAIN db
    /\ call.path \in DOMAIN storagesMap
    /\ drivers[storagesMap[call.path]].status = "dropped"

\* the registered storages that give the listing of prefix pre an entry name
Contributors(pre) ==
    {d \in Registered :
        /\ ~IsBalance(GetStorage(d).MountPath)
        /\ Len(GetStorage(d).MountPath) > Len(pre)
        /\ HasPrefix(GetStorage(d).MountPath, pre)}

\* the entry name storage d gives the listing of prefix pre
NameUnder(d, pre) == FirstSegment(TrimPrefix(GetStorage(d).MountPath, pre))

\* the contributor of name n that is first by Index, then by MountPath
Winner(n, pre) ==
    CHOOSE d \in Contributors(pre) :
        /\ NameUnder(d, pre) = n
        /\ \A e \in Contributors(pre) \ {d} :
              NameUnder(e, pre) = n => LessIndexMountPath(d, e)

\* C15: GetStorageVirtualFilesByPath emits one entry per first segment; the
\* entry has the Modified value of the storage that is first by (Index,
\* MountPath) among those sharing the segment, the entries follow the
\* (Index, MountPath) order of these storages, and each has size 0 and is a
\* folder
C15_FirstInOrderWins ==
    \A p \in ListingPrefixes, o \in Orders(storagesMap) :
        LET files == GetStorageVirtualFilesByPath(p, o)
            pre == ListPrefix(p)
            winners == [i \in DOMAIN files |-> Winner(files[i].Name, pre)]
        IN  /\ Range(Names(files)) = {NameUnder(d, pre) : d \in Contributors(pre)}
            /\ \A i, j \in DOMAIN files : i # j => files[i].Name # files[j].Name
            /\ \A i \in DOMAIN files :
                  /\ files[i].Modified = GetStorage(winners[i]).Modified
                  /\ files[i].Size = 0
                  /\ files[i].IsFolder
            /\ \A i, j \in DOMAIN files :
                  i < j => LessIndexMountPath(winners[i], winners[j])

\* /a/b and /a/b/c share the segment b under "/a"; /a/b/c has the lower
\* Index and the later Modified value, and the entry b shows it
C15_Witness ==
    \E d, e \in Contributors(ListPrefix(PathA)) :
        /\ GetStorage(d).MountPath = PathAB
        /\ GetStorage(e).MountPath = PathABC
        /\ GetStorage(e).Index < GetStorage(d).Index
        /\ GetStorage(e).Modified > GetStorage(d).Modified
        /\ \E o \in Orders(storagesMap) :
              \E f \in Range(GetStorageVirtualFilesByPath(PathA, o)) :
                  f.Name = <<"b">> /\ f.Modified = GetStorage(e).Modified

\* caller g has loaded the cursor of the group it resolved
Loaded(g) == goroutines[g].pc \in {"store", "done"} /\ "cur" \in DOMAIN goroutines[g]

\* callers g and h resolved the same group of two or more and loaded the
\* same stored cursor
SameCursor(g, h) ==
    /\ g # h
    /\ Loaded(g)
    /\ Loaded(h)
    /\ goroutines[g].storages = goroutines[h].storages
    /\ goroutines[g].ok
    /\ goroutines[h].ok
    /\ goroutines[g].cur = goroutines[h].cur

\* C16: two callers of GetBalancedStorage that both load the same cursor of
\* a group of two or more, the load and the store not being one step, both
\* return the same group member and leave the cursor only one position
\* after the one they loaded
C16_SameCursorSameMember ==
    \A g, h \in Callers :
        (SameCursor(g, h) /\ goroutines[g].pc = "done" /\ goroutines[h].pc = "done") =>
            /\ goroutines[g].result = goroutines[h].result
            /\ balanceMap[goroutines[g].virtualPath]
                  = (goroutines[g].cur + 1) % Len(goroutines[g].storages)

\* both callers have returned after loading the same cursor: they were
\* given the same member of the group and the cursor is one position on
C16_Witness ==
    \E g, h \in Callers :
        /\ SameCursor(g, h)
        /\ goroutines[g].pc = "done"
        /\ goroutines[h].pc = "done"
        /\ Len(goroutines[g].storages) >= 2
        /\ goroutines[g].result = goroutines[h].result
        /\ balanceMap[goroutines[g].virtualPath]
              = (goroutines[g].cur + 1) % Len(goroutines[g].storages)

\* caller g returns in this step
Returns(g) == goroutines[g].pc # "done" /\ goroutines'[g].pc = "done"

\* C17: GetBalancedStorage returns none when getStoragesByPath is empty, the
\* single storage when it has one element, leaving the cursor map alone and
\* never loading from it, and otherwise the element of its getStoragesByPath
\* result at an index in [0, group size), which it stores as the cursor,
\* whatever cursor it found
C17_SelectsInsideGroup ==
    [][\A g \in Callers :
          Returns(g) =>
              LET local == goroutines'[g]
                  storageNum == Len(local.storages)
              IN  CASE storageNum = 0 ->
                          /\ local.result = 0
                          /\ goroutines[g].pc = "idle"
                          /\ UNCHANGED balanceMap
                    [] storageNum = 1 ->
                          /\ local.result = local.storages[1]
                          /\ goroutines[g].pc = "idle"
                          /\ UNCHANGED balanceMap
                    [] OTHER ->
                          /\ local.i \in 0..(storageNum - 1)
                          /\ local.result = local.storages[local.i + 1]
                          /\ balanceMap' = MapStore(balanceMap, local.virtualPath, local.i)]_vars

\* a caller has returned a member of a group of two after loading a cursor
\* left over from the group of three, while the other caller had loaded the
\* same cursor
C17_Witness ==
    \E g, h \in Callers :
        /\ SameCursor(g, h)
        /\ goroutines[g].pc = "done"
        /\ Len(goroutines[g].storages) = 2
        /\ goroutines[g].cur = 2
        /\ goroutines[g].result \in Range(goroutines[g].storages)

\* C18: after lifecycle calls that all returned success, every row has a
\* registry entry under its mount path whose driver exposes the row's id,
\* and the driver of every registry entry exposes the id of an existing row
C18_RegistryAgrees ==
    /\ \A id \in DOMAIN db :
          /\ db[id].MountPath \in DOMAIN storagesMap
          /\ GetStorage(storagesMap[db[id].MountPath]).ID = id
    /\ \A k \in DOMAIN storagesMap : GetStorage(storagesMap[k]).ID \in DOMAIN db

\* C19: after lifecycle operations run one after the other, failed ones
\* included, every registry entry is stored under the MountPath of the
\* Storage its driver exposes
C19_KeyIsMountPath ==
    \A k \in DOMAIN storagesMap : GetStorage(storagesMap[k]).MountPath = k

\* an UpdateStorage that renames has failed at Init after the driver bound
\* the new storage, and another entry is registered
C19_Witness ==
    /\ call.op = "UpdateStorage"
    /\ call.err = "failed init storage"
    /\ call.new # call.path
    /\ \E d \in DOMAIN drivers :
          /\ drivers[d].status = "failed"
          /\ GetStorage(d).MountPath = call.new
    /\ storagesMap # Empty

\* C20: once an UpdateStorage and a DeleteStorageById of the same storage
\* that ran at the same time have both returned, the delete with success,
\* no registry entry holds a driver of that storage unless its row exists
C20_NoEntryOfDeleted ==
    (/\ goroutines["update"].pc = "done"
     /\ goroutines["delete"].pc = "done"
     /\ goroutines["update"].id = goroutines["delete"].id
     /\ goroutines["delete"].err = "nil")
    => \A k \in DOMAIN storagesMap :
          GetStorage(storagesMap[k]).ID = goroutines["delete"].id
              => goroutines["delete"].id \in DOMAIN db

====
